---- MODULE Spec2Model ----
(***************************************************************************)
(* Model of the animal feeder backend (src/app.py): the SQLite store with  *)
(* its four tables, the device routes /check_schedule, /complete_schedule, *)
(* /weight_update and /upload_image as request handlers that run one       *)
(* query_db statement per step (a request's arrival, the checks of its     *)
(* form and its first statement are one step: nothing shared is touched    *)
(* before that statement), the administrative CRUD routes, each a single   *)
(* statement, the history read, and the image directory with the route     *)
(* that deletes an image.                                                  *)
(*                                                                         *)
(* Conventions.  A table is the set of its rows.  A text column or form    *)
(* field that is absent is "" (request.form.get gives None, which the      *)
(* handlers test with `not x`, as they do the empty string); an SQL NULL   *)
(* in the status column is the string "NULL".  A numeric value that may be *)
(* absent is a tuple: <<>> for none, <<v>> for the value v.  A time of day *)
(* "HH:MM" is the tuple of its four digits, compared as a string is.      *)
(***************************************************************************)
EXTENDS Integers, Sequences, FiniteSets, TLC

\* ------------------------------------------------------------ bounds
\* The schedule_ids the administrative add_schedule may hand out, and the
\* history_ids: AUTOINCREMENT is cut off there.
MaxSched == 1
MaxHist == 2

\* ------------------------------------------------------------ domains
Procs == {"p1", "p2"}
CamIds == {"C1", "C2"}
ModuleIds == {"M1", "M2"}
\* The server clock, in minutes of the day: 09:00, 10:00.
ClockValues == {540, 600}
\* Zero-padded feed times an administrator enters: 08:00, 09:30.
FeedTimes == {<<0, 8, 0, 0>>, <<0, 9, 3, 0>>}
Amounts == {20}
\* Weight form values, as the characters sent.
WeightTexts ==
    {<<"5", "0">>, <<"-", "1">>, <<"1", "0", "0", "0", "1">>,
     <<"a", "b", "c">>, <<"n", "a", "n">>}

VARIABLES
    camera,     \* table camera:    rows [cam_id, status]
    modules,    \* table modules:   rows [module_id, cam_id, status, weight]
    schedules,  \* table schedules: rows [schedule_id, module_id, feed_time, amount, status]
    history,    \* table history:   rows [history_id, schedule_id, created_at]
    seqSched,   \* sqlite_sequence of schedules: the last schedule_id handed out
    seqHist,    \* sqlite_sequence of history
    files,      \* the names in instance/images, [camera_id, timestamp]
    imagesDir,  \* whether the directory instance/images exists
    now,        \* the server clock (minutes of the day)
    pc,         \* per request thread: where its handler stands
    req,        \* per request thread: the request it serves
    nowStr,     \* per request thread: check_schedule's local `now`
    resp,       \* per request thread: the response returned
    wrote,      \* per request thread: whether the request changed the store
    completed   \* schedule_ids for which /complete_schedule answered success

Store == <<camera, modules, schedules, history, seqSched, seqHist>>
procVars == <<pc, req, nowStr, resp, wrote, completed>>
vars == <<camera, modules, schedules, history, seqSched, seqHist, files,
          imagesDir, now, pc, req, nowStr, resp, wrote, completed>>

\* ------------------------------------------------------------ time of day
\* datetime.now().strftime("%H:%M") of a clock value.
strftime(t) ==
    <<(t \div 60) \div 10, (t \div 60) % 10, (t % 60) \div 10, (t % 60) % 10>>

\* SQLite's comparison a <= b of two TEXT values: byte by byte.
RECURSIVE TextLe(_, _)
TextLe(a, b) ==
    IF a = <<>> THEN TRUE
    ELSE IF b = <<>> THEN FALSE
    ELSE IF Head(a) # Head(b) THEN Head(a) < Head(b)
    ELSE TextLe(Tail(a), Tail(b))

\* The number of minutes an "HH:MM" text stands for.
Minutes(t) == (t[1] * 10 + t[2]) * 60 + t[3] * 10 + t[4]

\* ------------------------------------------------------------ weight parsing
Digits ==
    [c \in {"0", "1", "2", "3", "4", "5", "6", "7", "8", "9"} |->
        CASE c = "0" -> 0 [] c = "1" -> 1 [] c = "2" -> 2 [] c = "3" -> 3
          [] c = "4" -> 4 [] c = "5" -> 5 [] c = "6" -> 6 [] c = "7" -> 7
          [] c = "8" -> 8 [] c = "9" -> 9]

RECURSIVE DigitsValue(_, _)
DigitsValue(s, acc) ==
    IF s = <<>> THEN acc ELSE DigitsValue(Tail(s), acc * 10 + Digits[Head(s)])

AllDigits(s) == s # <<>> /\ \A i \in 1..Len(s) : s[i] \in DOMAIN Digits

\* float(weight): [ok, nan, value]; ok = FALSE is the ValueError.
float(w) ==
    IF w = <<"n", "a", "n">> THEN [ok |-> TRUE, nan |-> TRUE, value |-> 0]
    ELSE IF AllDigits(w) THEN [ok |-> TRUE, nan |-> FALSE, value |-> DigitsValue(w, 0)]
    ELSE IF w # <<>> /\ Head(w) = "-" /\ AllDigits(Tail(w))
        THEN [ok |-> TRUE, nan |-> FALSE, value |-> 0 - DigitsValue(Tail(w), 0)]
    ELSE [ok |-> FALSE, nan |-> FALSE, value |-> 0]

\* weight_value < 0 or weight_value > 10000; every comparison with nan is false.
WeightOutOfRange(f) == ~f.nan /\ (f.value < 0 \/ f.value > 10000)

\* The REAL column a float is stored as: SQLite stores nan as NULL.
StoredWeight(f) == IF f.nan THEN <<>> ELSE <<f.value>>

\* ------------------------------------------------------------ requests, responses
NoReq ==
    [op |-> "", module_id |-> "", schedule_id |-> <<>>, has_weight |-> FALSE,
     weight |-> <<>>, camera_id |-> "", image |-> FALSE]

NoResp ==
    [code |-> 0, error |-> "", success |-> FALSE, dispense |-> FALSE,
     schedule_id |-> <<>>, amount |-> <<>>, scheduled_time |-> <<>>,
     rows |-> <<>>]

Error(code, text) == [NoResp EXCEPT !.code = code, !.error = text]
\* {"success": True, ...}
Success == [NoResp EXCEPT !.code = 200, !.success = TRUE]
\* {"dispense": False}
NoDispense == [NoResp EXCEPT !.code = 200]

\* Form values a device may send: a registered id, one never registered, none.
FormModuleIds == ModuleIds \cup {"M9", ""}
FormCamIds == CamIds \cup {"C9", ""}
\* schedule_id "0" is never a row's: AUTOINCREMENT starts at 1.
FormScheduleIds == {<<>>} \cup {<<n>> : n \in 0..2}

Idle(p) == pc[p] \in {"idle", "done"}

\* The handler returns e: the thread holds the response and no request.
Return(p, e) ==
    /\ pc' = [pc EXCEPT ![p] = "done"]
    /\ resp' = [resp EXCEPT ![p] = e]
    /\ req' = [req EXCEPT ![p] = NoReq]

\* The handler of request r goes on to its statement at.
Goto(p, r, at) ==
    /\ pc' = [pc EXCEPT ![p] = at]
    /\ resp' = [resp EXCEPT ![p] = NoResp]
    /\ req' = [req EXCEPT ![p] = r]

\* Whether the request has changed the store: first tells its first step.
Wrote(p, first) ==
    wrote' = [wrote EXCEPT ![p] = (~first /\ @) \/ Store' # Store]

\* ------------------------------------------------------------ the statements
\* (mutant) the status of the module is not looked at.
SelectActiveModule_AnyStatus(m) == {r \in modules : r.module_id = m}

\* SELECT module_id FROM modules WHERE module_id=? AND status='active'
SelectActiveModule(m) ==
    {r \in modules : r.module_id = m /\ r.status = "active"}

\* (mutant) the pending schedules of the module, due or not.
DueRows_AnyTime(m, t) ==
    {r \in schedules : r.module_id = m /\ r.status = "pending"}

\* ... FROM schedules WHERE module_id=? AND feed_time<=? AND status='pending'
DueRows(m, t) ==
    {r \in schedules :
        r.module_id = m /\ TextLe(r.feed_time, t) /\ r.status = "pending"}

\* (mutant) ORDER BY feed_time DESC: the latest due row.
FirstDue_Latest(m, t) ==
    {r \in DueRows(m, t) :
        \A o \in DueRows(m, t) :
            \/ r.feed_time # o.feed_time /\ TextLe(o.feed_time, r.feed_time)
            \/ r.feed_time = o.feed_time /\ r.schedule_id <= o.schedule_id}

\* ... ORDER BY feed_time ASC LIMIT 1: the first row of the sort; SQLite's sorter
\* keeps rows with equal keys in the order of the table scan, which is by rowid.
FirstDue(m, t) ==
    {r \in DueRows(m, t) :
        \A o \in DueRows(m, t) :
            \/ r.feed_time # o.feed_time /\ TextLe(r.feed_time, o.feed_time)
            \/ r.feed_time = o.feed_time /\ r.schedule_id <= o.schedule_id}

\* SELECT schedule_id, module_id, status FROM schedules WHERE schedule_id=?
SelectSchedule(sid) == {r \in schedules : <<r.schedule_id>> = sid}

\* (mutant) the UPDATE matches no row.
MarkDone_NoRow(sid) == schedules

\* (mutant) the UPDATE flips the status: a done schedule is pending again.
MarkDone_Toggle(sid) ==
    {IF <<r.schedule_id>> = sid
        THEN [r EXCEPT !.status = IF @ = "done" THEN "pending" ELSE "done"]
        ELSE r : r \in schedules}

\* UPDATE schedules SET status='done' WHERE schedule_id=?
MarkDone(sid) ==
    {IF <<r.schedule_id>> = sid THEN [r EXCEPT !.status = "done"] ELSE r :
        r \in schedules}

\* INSERT INTO history (schedule_id) VALUES (?)
InsertHistory(sid) ==
    history \cup
        {[history_id |-> seqHist + 1, schedule_id |-> sid, created_at |-> now]}

\* SELECT module_id FROM modules WHERE module_id=?
SelectModule(m) == {r \in modules : r.module_id = m}

\* (mutant) INSERT OR REPLACE: a module not yet registered gets a row.
UpdateWeight_Upsert(m, w) ==
    {r \in modules : r.module_id # m} \cup
        {[module_id |-> m, cam_id |-> "", status |-> "active", weight |-> w]}

\* UPDATE modules SET weight=?, status='active' WHERE module_id=?
UpdateWeight(m, w) ==
    {IF r.module_id = m THEN [r EXCEPT !.weight = w, !.status = "active"] ELSE r :
        r \in modules}

\* SELECT cam_id FROM camera WHERE cam_id=? AND status='active'
SelectActiveCamera(c) == {r \in camera : r.cam_id = c /\ r.status = "active"}

\* ------------------------------------------------------------ /check_schedule
\* The form check, the module query, then `now = datetime.now().strftime("%H:%M")`.
check_schedule(p, m) ==
    /\ Idle(p)
    /\ IF m = ""
        THEN Return(p, Error(400, "Missing module_id")) /\ nowStr' = nowStr
        ELSE IF SelectActiveModule(m) = {}
            THEN /\ Return(p, Error(404, "Invalid or inactive module_id"))
                 /\ nowStr' = nowStr
            ELSE /\ Goto(p, [NoReq EXCEPT !.op = "check_schedule", !.module_id = m],
                         "cs_due")
                 /\ nowStr' = [nowStr EXCEPT ![p] = strftime(now)]
    /\ UNCHANGED <<Store, files, imagesDir, now, completed>>
    /\ Wrote(p, TRUE)

\* The row the answer is built from.
DueAnswer(row) ==
    [NoDispense EXCEPT !.dispense = TRUE, !.amount = <<row.amount>>,
                    !.schedule_id = <<row.schedule_id>>,
                    !.scheduled_time = row.feed_time]

\* (mutant) the poll marks the schedule it reports done.
check_schedule_due_marking(p) ==
    /\ pc[p] = "cs_due"
    /\ LET rows == FirstDue(req[p].module_id, nowStr[p]) IN
        IF rows = {} THEN Return(p, NoDispense) /\ schedules' = schedules
        ELSE \E row \in rows :
            /\ Return(p, DueAnswer(row))
            /\ schedules' = MarkDone(<<row.schedule_id>>)
    /\ nowStr' = [nowStr EXCEPT ![p] = <<>>]
    /\ UNCHANGED <<camera, modules, history, seqSched, seqHist, files, imagesDir,
                   now, completed>>
    /\ Wrote(p, FALSE)

\* The schedule query and the answer.
check_schedule_due(p) ==
    /\ pc[p] = "cs_due"
    /\ LET rows == FirstDue(req[p].module_id, nowStr[p]) IN
        IF rows = {} THEN Return(p, NoDispense)
        ELSE \E row \in rows : Return(p, DueAnswer(row))
    /\ nowStr' = [nowStr EXCEPT ![p] = <<>>]
    /\ UNCHANGED <<Store, files, imagesDir, now, completed>>
    /\ Wrote(p, FALSE)

\* ------------------------------------------------------------ /complete_schedule
\* (mutant) the status of the row is not looked at.
Precheck_NoStatus(rows, m) ==
    IF rows = {} THEN Error(404, "Schedule not found")
    ELSE LET schedule == CHOOSE r \in rows : TRUE IN
        IF m # "" /\ schedule.module_id # m THEN Error(403, "Module ID mismatch")
        ELSE NoResp

\* The answer the checks give for the rows read, NoResp when they all pass.
Precheck(rows, m) ==
    IF rows = {} THEN Error(404, "Schedule not found")
    ELSE LET schedule == CHOOSE r \in rows : TRUE IN
        IF schedule.status = "done" THEN Error(400, "Schedule already completed")
        ELSE IF m # "" /\ schedule.module_id # m THEN Error(403, "Module ID mismatch")
        ELSE NoResp

\* (mutant) the schedule is marked done before the checks on the row.
complete_schedule_early_update(p, sid, m) ==
    /\ Idle(p)
    /\ IF sid = <<>>
        THEN Return(p, Error(400, "Missing schedule_id")) /\ schedules' = schedules
        ELSE /\ schedules' = MarkDone(sid)
             /\ IF Precheck(SelectSchedule(sid), m) # NoResp
                 THEN Return(p, Precheck(SelectSchedule(sid), m))
                 ELSE Goto(p, [NoReq EXCEPT !.op = "complete_schedule",
                                            !.schedule_id = sid, !.module_id = m],
                           "cp_insert")
    /\ UNCHANGED <<camera, modules, history, seqSched, seqHist, files, imagesDir,
                   now, nowStr,
                   completed>>
    /\ Wrote(p, TRUE)

\* The form check, the schedule query and the checks on the row.
complete_schedule(p, sid, m) ==
    /\ Idle(p)
    /\ IF sid = <<>> THEN Return(p, Error(400, "Missing schedule_id"))
       ELSE IF Precheck(SelectSchedule(sid), m) # NoResp
           THEN Return(p, Precheck(SelectSchedule(sid), m))
           ELSE Goto(p, [NoReq EXCEPT !.op = "complete_schedule",
                                      !.schedule_id = sid, !.module_id = m],
                     "cp_update")
    /\ UNCHANGED <<Store, files, imagesDir, now, nowStr, completed>>
    /\ Wrote(p, TRUE)

complete_schedule_update(p) ==
    /\ pc[p] = "cp_update"
    /\ schedules' = MarkDone(req[p].schedule_id)
    /\ Goto(p, req[p], "cp_insert")
    /\ UNCHANGED <<camera, modules, history, seqSched, seqHist, files, imagesDir, now,
                   nowStr, completed>>
    /\ Wrote(p, FALSE)

complete_schedule_insert(p) ==
    /\ pc[p] = "cp_insert"
    /\ seqHist < MaxHist
    /\ history' = InsertHistory(req[p].schedule_id[1])
    /\ seqHist' = seqHist + 1
    /\ Return(p, [Success EXCEPT !.schedule_id = req[p].schedule_id])
    /\ completed' = completed \cup {req[p].schedule_id[1]}
    /\ UNCHANGED <<camera, modules, schedules, seqSched, files, imagesDir, now, nowStr>>
    /\ Wrote(p, FALSE)

\* ------------------------------------------------------------ /weight_update
\* The answer of the form checks, NoResp when they pass.
WeightCheck(m, has, w) ==
    IF m = "" \/ ~has THEN Error(400, "Missing module_id or weight")
    ELSE IF ~float(w).ok THEN Error(400, "Weight must be a number")
    ELSE IF WeightOutOfRange(float(w)) THEN Error(400, "Invalid weight value")
    ELSE NoResp

\* The form checks and the module query.
weight_update(p, m, has, w) ==
    /\ Idle(p)
    /\ IF WeightCheck(m, has, w) # NoResp THEN Return(p, WeightCheck(m, has, w))
       ELSE IF SelectModule(m) = {}
           THEN Return(p, Error(403, "Module not registered. Please register module first."))
           ELSE Goto(p, [NoReq EXCEPT !.op = "weight_update", !.module_id = m,
                                      !.has_weight = has, !.weight = w],
                     "wu_update")
    /\ UNCHANGED <<Store, files, imagesDir, now, nowStr, completed>>
    /\ Wrote(p, TRUE)

weight_update_update(p) ==
    /\ pc[p] = "wu_update"
    /\ modules' = UpdateWeight(req[p].module_id, StoredWeight(float(req[p].weight)))
    /\ Return(p, Success)
    /\ UNCHANGED <<camera, schedules, history, seqSched, seqHist, files, imagesDir, now,
                   nowStr, completed>>
    /\ Wrote(p, FALSE)

\* ------------------------------------------------------------ /upload_image
\* The form check, the camera query, the image check and the save under
\* {camera_id}_{timestamp}.jpg.
upload_image(p, c, image) ==
    /\ Idle(p)
    /\ IF c = "" THEN Return(p, Error(400, "Missing camera_id")) /\ files' = files
       ELSE IF SelectActiveCamera(c) = {}
           THEN Return(p, Error(404, "Invalid or inactive camera_id")) /\ files' = files
       ELSE IF ~image
           THEN Return(p, Error(400, "No image data")) /\ files' = files
       ELSE /\ files' = files \cup {[camera_id |-> c, timestamp |-> now]}
            /\ Return(p, Success)
    \* os.makedirs(images_dir, exist_ok=True), reached with the save only
    /\ imagesDir' = (imagesDir \/ resp'[p] = Success)
    /\ UNCHANGED <<Store, now, nowStr, completed>>
    /\ Wrote(p, TRUE)

\* ------------------------------------------------------------ DELETE /api/snapshots/<filename>
\* A filename is the tuple of its characters.
CamText == [c \in {"C1", "C2"} |-> IF c = "C1" THEN <<"C", "1">> ELSE <<"C", "2">>]
DigitChar == <<"0", "1", "2", "3", "4", "5", "6", "7", "8", "9">>
\* str(timestamp), the clock value having three digits.
TimeText(t) ==
    <<DigitChar[((t \div 100) % 10) + 1], DigitChar[((t \div 10) % 10) + 1],
      DigitChar[(t % 10) + 1]>>

\* f"{camera_id}_{timestamp}.jpg"
SnapshotName(f) ==
    CamText[f.camera_id] \o <<"_">> \o TimeText(f.timestamp) \o <<".", "j", "p", "g">>

\* sub in s
Contains(s, sub) ==
    \E i \in 1..(Len(s) - Len(sub) + 1) : SubSeq(s, i, i + Len(sub) - 1) = sub

\* '..' in filename or '/' in filename or '\\' in filename
HasTraversal(filename) ==
    \/ Contains(filename, <<".", ".">>)
    \/ Contains(filename, <<"/">>)
    \/ Contains(filename, <<"\\">>)

\* os.path.exists(os.path.join(image_dir, filename)): a saved image, or the
\* parent of the directory, which resolves once the directory exists.
PathExists(filename) ==
    \/ \E f \in files : SnapshotName(f) = filename
    \/ filename = <<".", ".">> /\ imagesDir

\* The existence check, the check of the filename, os.remove.
delete_snapshot(p, filename) ==
    /\ Idle(p)
    /\ IF ~PathExists(filename)
        THEN Return(p, Error(404, "File not found")) /\ files' = files
       ELSE IF HasTraversal(filename)
        THEN Return(p, Error(400, "Invalid filename")) /\ files' = files
       ELSE /\ files' = {f \in files : SnapshotName(f) # filename}
            /\ Return(p, Success)
    /\ UNCHANGED <<Store, imagesDir, now, nowStr, completed>>
    /\ Wrote(p, TRUE)

\* The filenames a client asks to delete: the parent directory, a path out of
\* the directory written with backslashes, the images a camera may have saved, a
\* name never saved.  (The route's <filename> matches no name with a '/'.)
SnapshotInputs ==
    {<<".", ".">>, <<".", ".", "\\", "x">>, <<"x">>} \cup
        {SnapshotName([camera_id |-> c, timestamp |-> t]) :
            c \in CamIds, t \in ClockValues}

\* ------------------------------------------------------------ GET /history
\* One row of history LEFT JOIN schedules: the columns of s are NULL when no
\* schedule has the row's schedule_id.
JoinRow(h) ==
    LET s == {r \in schedules : r.schedule_id = h.schedule_id} IN
    IF s = {}
    THEN [history_id |-> h.history_id, created_at |-> h.created_at,
          schedule_id |-> <<>>, module_id |-> "", feed_time |-> <<>>,
          amount |-> <<>>, status |-> "NULL"]
    ELSE LET r == CHOOSE r \in s : TRUE IN
         [history_id |-> h.history_id, created_at |-> h.created_at,
          schedule_id |-> <<r.schedule_id>>, module_id |-> r.module_id,
          feed_time |-> r.feed_time, amount |-> <<r.amount>>, status |-> r.status]

\* ORDER BY h.created_at DESC: the orders of the joined rows it allows, rows of
\* one created_at coming in either order.
HistoryOrders ==
    LET rows == {JoinRow(h) : h \in history}
        n == Cardinality(rows) IN
    {seq \in [1..n -> rows] :
        /\ \A i, j \in 1..n : i # j => seq[i] # seq[j]
        /\ \A i, j \in 1..n : i < j => seq[i].created_at >= seq[j].created_at}

get_history(p) ==
    /\ Idle(p)
    /\ \E seq \in HistoryOrders :
        Return(p, [NoResp EXCEPT !.code = 200, !.rows = seq])
    /\ UNCHANGED <<Store, files, imagesDir, now, nowStr, completed>>
    /\ Wrote(p, TRUE)

\* ------------------------------------------------------------ query_db failing
\* cur.execute or con.commit raises sqlite3.OperationalError (the database stays
\* locked past the timeout, the disk fails): the statement is rolled back and the
\* exception leaves the handler, which Flask answers with 500.
query_db_raises(p) ==
    /\ pc[p] \in {"cs_due", "cp_update", "cp_insert", "wu_update"}
    /\ Return(p, Error(500, "OperationalError"))
    /\ nowStr' = [nowStr EXCEPT ![p] = <<>>]
    /\ UNCHANGED <<Store, files, imagesDir, now, completed>>
    /\ Wrote(p, FALSE)

\* The same in a request's first statement.
query_db_raises_first(p) ==
    /\ Idle(p)
    /\ Return(p, Error(500, "OperationalError"))
    /\ UNCHANGED <<Store, files, imagesDir, now, nowStr, completed>>
    /\ Wrote(p, TRUE)

\* ------------------------------------------------------------ the clock
Tick ==
    /\ \E t \in ClockValues : t > now /\ now' = t
    /\ UNCHANGED <<Store, files, imagesDir, procVars>>

\* ------------------------------------------------------------ administrative routes
\* Each is one statement.  A statement the schema refuses (a primary key taken,
\* the CHECK on schedules.status) raises sqlite3.IntegrityError and writes nothing.
DeviceStatuses == {"active", "inactive"}
\* What an administrator sends as a schedule's status: JSON null arrives as NULL.
StatusInputs == {"pending", "done", "NULL", "paused"}

\* CHECK(status IN ('pending', 'done')): violated only when the test is false;
\* for NULL it is NULL, which passes.
StatusCheck(st) == st \in {"pending", "done"} \/ st = "NULL"

add_camera(c, st) ==
    /\ camera' = IF \E r \in camera : r.cam_id = c THEN camera
                 ELSE camera \cup {[cam_id |-> c, status |-> st]}
    /\ UNCHANGED <<modules, schedules, history, seqSched, seqHist, files,
                   imagesDir, now, procVars>>

update_camera(c, st) ==
    /\ camera' = {IF r.cam_id = c THEN [r EXCEPT !.status = st] ELSE r : r \in camera}
    /\ UNCHANGED <<modules, schedules, history, seqSched, seqHist, files,
                   imagesDir, now, procVars>>

delete_camera(c) ==
    /\ camera' = {r \in camera : r.cam_id # c}
    /\ UNCHANGED <<modules, schedules, history, seqSched, seqHist, files,
                   imagesDir, now, procVars>>

add_module(m, c, st, w) ==
    /\ modules' = IF \E r \in modules : r.module_id = m THEN modules
                  ELSE modules \cup
                      {[module_id |-> m, cam_id |-> c, status |-> st, weight |-> w]}
    /\ UNCHANGED <<camera, schedules, history, seqSched, seqHist, files, imagesDir,
                   now, procVars>>

update_module(m, c, st, w) ==
    /\ modules' = {IF r.module_id = m
                      THEN [r EXCEPT !.cam_id = c, !.status = st, !.weight = w]
                      ELSE r : r \in modules}
    /\ UNCHANGED <<camera, schedules, history, seqSched, seqHist, files, imagesDir,
                   now, procVars>>

delete_module(m) ==
    /\ modules' = {r \in modules : r.module_id # m}
    /\ UNCHANGED <<camera, schedules, history, seqSched, seqHist, files, imagesDir,
                   now, procVars>>

add_schedule(m, ft, a, st) ==
    /\ seqSched < MaxSched
    /\ IF StatusCheck(st)
        THEN /\ schedules' = schedules \cup
                    {[schedule_id |-> seqSched + 1, module_id |-> m, feed_time |-> ft,
                      amount |-> a, status |-> st]}
             /\ seqSched' = seqSched + 1
        ELSE UNCHANGED <<schedules, seqSched>>
    /\ UNCHANGED <<camera, modules, history, seqHist, files, imagesDir, now, procVars>>

update_schedule(sid, m, ft, a, st) ==
    /\ schedules' =
        IF StatusCheck(st)
        THEN {IF r.schedule_id = sid
                 THEN [r EXCEPT !.module_id = m, !.feed_time = ft, !.amount = a,
                                !.status = st]
                 ELSE r : r \in schedules}
        ELSE schedules
    /\ UNCHANGED <<camera, modules, history, seqSched, seqHist, files, imagesDir,
                   now, procVars>>

\* (mutant) ON DELETE CASCADE: the history rows of the schedule go with it.
delete_schedule_cascade(sid) ==
    /\ schedules' = {r \in schedules : r.schedule_id # sid}
    /\ history' = {h \in history : h.schedule_id # sid}
    /\ UNCHANGED <<camera, modules, seqSched, seqHist, files, imagesDir, now, procVars>>

delete_schedule(sid) ==
    /\ schedules' = {r \in schedules : r.schedule_id # sid}
    /\ UNCHANGED <<camera, modules, history, seqSched, seqHist, files, imagesDir,
                   now, procVars>>

add_history(sid) ==
    /\ seqHist < MaxHist
    /\ history' = InsertHistory(sid)
    /\ seqHist' = seqHist + 1
    /\ UNCHANGED <<camera, modules, schedules, seqSched, files, imagesDir, now,
                   procVars>>

delete_history(hid) ==
    /\ history' = {r \in history : r.history_id # hid}
    /\ UNCHANGED <<camera, modules, schedules, seqSched, seqHist, files, imagesDir,
                   now, procVars>>

\* ------------------------------------------------------------ specifications
InitThreads ==
    /\ pc = [p \in Procs |-> "idle"]
    /\ req = [p \in Procs |-> NoReq]
    /\ nowStr = [p \in Procs |-> <<>>]
    /\ resp = [p \in Procs |-> NoResp]
    /\ wrote = [p \in Procs |-> FALSE]
    /\ completed = {}

\* The registry as add_camera and add_module leave it: camera C1 active and C2
\* inactive, module M1 active and M2 inactive, no weight reported yet.
InitRegistry ==
    /\ camera = {[cam_id |-> "C1", status |-> "active"],
                 [cam_id |-> "C2", status |-> "inactive"]}
    /\ modules = {[module_id |-> "M1", cam_id |-> "C1", status |-> "active",
                   weight |-> <<>>],
                  [module_id |-> "M2", cam_id |-> "C1", status |-> "inactive",
                   weight |-> <<>>]}
    /\ files = {}
    /\ imagesDir = FALSE
    /\ now \in ClockValues

\* The registry set up, no schedule yet.
Init ==
    /\ InitRegistry
    /\ schedules = {}
    /\ seqSched = 0
    /\ history = {}
    /\ seqHist = 0
    /\ InitThreads

\* The amount of the i-th schedule of a day's plan.
PlanAmount(i) == IF i % 2 = 1 THEN 20 ELSE 35
\* The schedule_ids of a day's plan.
PlanIds == {1, 2}

\* The plan's rows: f gives each schedule its module and feed time.
Plan(f) ==
    {[schedule_id |-> i, module_id |-> f[i][1], feed_time |-> f[i][2],
      amount |-> PlanAmount(i), status |-> "pending"] : i \in PlanIds}

\* The registry set up and a day's plan entered with add_schedule: pending
\* schedules, for either module at either feed time; no history yet.
InitDevice ==
    /\ InitRegistry
    /\ \E f \in [PlanIds -> ModuleIds \X FeedTimes] : schedules = Plan(f)
    /\ seqSched = Cardinality(PlanIds)
    /\ history = {}
    /\ seqHist = 0
    /\ InitThreads

\* The same with one plan: schedule 1 for M1 at 08:00, schedule 2 for M2 at 09:30.
InitSeq ==
    /\ InitRegistry
    /\ schedules = Plan([i \in PlanIds |->
                            IF i = 1 THEN <<"M1", <<0, 8, 0, 0>>>>
                                     ELSE <<"M2", <<0, 9, 3, 0>>>>])
    /\ seqSched = Cardinality(PlanIds)
    /\ history = {}
    /\ seqHist = 0
    /\ InitThreads

\* The dispatch protocol's two routes.
Dispatch(p) ==
    \/ \E m \in FormModuleIds : check_schedule(p, m)
    \/ check_schedule_due(p)
    \/ \E sid \in FormScheduleIds, m \in {"", "M1"} : complete_schedule(p, sid, m)
    \/ complete_schedule_update(p)
    \/ complete_schedule_insert(p)

\* The telemetry routes.
Telemetry(p) ==
    \/ \E m \in FormModuleIds, w \in WeightTexts : weight_update(p, m, TRUE, w)
    \/ weight_update(p, "M1", FALSE, <<>>)
    \/ weight_update_update(p)
    \/ \E c \in FormCamIds, image \in BOOLEAN : upload_image(p, c, image)

\* The administrative calls on schedules and history.
Admin ==
    \/ \E m \in ModuleIds, ft \in FeedTimes, a \in Amounts, st \in StatusInputs :
        add_schedule(m, ft, a, st)
    \/ \E sid \in 1..MaxSched, m \in ModuleIds, ft \in FeedTimes, a \in Amounts,
          st \in StatusInputs : update_schedule(sid, m, ft, a, st)
    \/ \E sid \in 1..MaxSched : delete_schedule(sid)

\* One device thread on the dispatch routes, concurrent with the administration
\* of schedules, and query_db free to fail.
Next ==
    \/ Dispatch("p1")
    \/ query_db_raises("p1")
    \/ query_db_raises_first("p1")
    \/ Admin
    \/ Tick

Spec == Init /\ [][Next]_vars

\* Normal operation of the dispatch protocol: two device threads running
\* concurrently on a day's plan, no administrative write, no store failure.
NextDevice ==
    \/ \E p \in Procs : Dispatch(p)
    \/ Tick

SpecDevice == InitDevice /\ [][NextDevice]_vars

\* Normal operation, one request at a time, on all four device routes.
NextSeq ==
    \/ Dispatch("p1")
    \/ Telemetry("p1")
    \/ Tick

SpecSeq == InitSeq /\ [][NextSeq]_vars

\* The administrative calls on schedules, for module M1 at 08:00, any status.
AdminStatus ==
    \/ \E st \in StatusInputs : add_schedule("M1", <<0, 8, 0, 0>>, 20, st)
    \/ \E sid \in 1..MaxSched, st \in StatusInputs :
        update_schedule(sid, "M1", <<0, 8, 0, 0>>, 20, st)
    \/ \E sid \in 1..MaxSched : delete_schedule(sid)

\* One device thread on all four device routes, concurrent with the
\* administration of schedules.
\* The telemetry routes on module M1 and camera C1.
TelemetryM1(p) ==
    \/ \E m \in {"M1", "M9"}, w \in {<<"5", "0">>, <<"a", "b", "c">>} :
        weight_update(p, m, TRUE, w)
    \/ weight_update_update(p)
    \/ \E c \in {"C1", "C9"} : upload_image(p, c, TRUE)

NextRoutes ==
    \/ Dispatch("p1")
    \/ TelemetryM1("p1")
    \/ AdminStatus
    \/ Tick

SpecRoutes == Init /\ [][NextRoutes]_vars

\* The administrative calls on the registry: cameras and modules.
RegistryAdmin ==
    \/ \E c \in CamIds, st \in DeviceStatuses : add_camera(c, st)
    \/ \E c \in CamIds, st \in DeviceStatuses : update_camera(c, st)
    \/ \E c \in CamIds : delete_camera(c)
    \/ \E m \in ModuleIds, st \in DeviceStatuses : add_module(m, "C1", st, <<>>)
    \/ \E m \in ModuleIds, st \in DeviceStatuses : update_module(m, "C1", st, <<>>)
    \/ \E m \in ModuleIds : delete_module(m)

\* The polls and the telemetry of one device thread.
PollAndTelemetry(p) ==
    \/ \E m \in FormModuleIds : check_schedule(p, m)
    \/ check_schedule_due(p)
    \/ \E m \in {"M1", "M9"}, w \in {<<"5", "0">>, <<"a", "b", "c">>} :
        weight_update(p, m, TRUE, w)
    \/ weight_update_update(p)
    \/ \E c \in {"C1", "C9"} : upload_image(p, c, TRUE)

\* One device thread polling and reporting, concurrent with the administration
\* of the registry, on the plan of InitSeq.
NextRegistry ==
    \/ PollAndTelemetry("p1")
    \/ RegistryAdmin
    \/ Tick

SpecRegistry == InitSeq /\ [][NextRegistry]_vars

\* The image store: two threads uploading and deleting images.
NextSnapshots ==
    \/ \E p \in Procs, c \in FormCamIds, image \in BOOLEAN : upload_image(p, c, image)
    \/ \E p \in Procs, filename \in SnapshotInputs : delete_snapshot(p, filename)
    \/ Tick

SpecSnapshots == Init /\ [][NextSnapshots]_vars

\* One thread completing schedules and reading history, concurrent with the
\* administrative calls that delete schedules and add and delete history rows,
\* on the plan of InitSeq.
NextHistory ==
    \/ \E sid \in PlanIds : complete_schedule("p1", <<sid>>, "")
    \/ complete_schedule_update("p1")
    \/ complete_schedule_insert("p1")
    \/ get_history("p1")
    \/ \E sid \in PlanIds : delete_schedule(sid)
    \/ \E sid \in PlanIds : add_history(sid)
    \/ \E hid \in 1..MaxHist : delete_history(hid)
    \/ Tick

SpecHistory == InitSeq /\ [][NextHistory]_vars

\* Two device threads running concurrently on all four device routes, on the
\* plan of InitSeq; no administrative write.
NextFleet ==
    \/ \E p \in Procs : Dispatch(p)
    \/ \E p \in Procs : TelemetryM1(p)
    \/ Tick

SpecFleet == InitSeq /\ [][NextFleet]_vars

\* ------------------------------------------------------------ claims
HistoryOf(sid) == {h \in history : h.schedule_id = sid}
Succeeded(p, sid) ==
    pc[p] = "done" /\ resp[p] = [Success EXCEPT !.schedule_id = <<sid>>]
AlreadyCompleted == Error(400, "Schedule already completed")

\* C1 (as claimed; SpecDevice): of concurrent /complete_schedule requests for one
\* schedule at most one is answered success, and history holds at most one row
\* for the schedule.
C1_ExactlyOneCompletion ==
    \A sid \in PlanIds :
        /\ Cardinality({p \in Procs : Succeeded(p, sid)}) <= 1
        /\ Cardinality(HistoryOf(sid)) <= 1

\* C2 (as claimed; SpecDevice): in every state a schedule is done if and only if
\* history holds a row for it.
C2_DoneIffHistory ==
    \A r \in schedules : (r.status = "done") <=> (HistoryOf(r.schedule_id) # {})

\* C3 (SpecSeq): a /complete_schedule request for a schedule an earlier request
\* completed with success is answered 400 "already completed", the schedule stays
\* done, and no history row is added.
C3_SecondCompletionRejected ==
    [][\A sid \in FormScheduleIds, m \in {"", "M1"} :
        (sid # <<>> /\ sid[1] \in completed /\ complete_schedule("p1", sid, m))
        => /\ resp'["p1"] = AlreadyCompleted
           /\ \A r \in schedules' : <<r.schedule_id>> = sid => r.status = "done"
           /\ SelectSchedule(sid) # {}
           /\ schedules' = schedules
           /\ history' = history]_vars

\* C3 witness: a request was answered "already completed" after a success.
C3_Witness ==
    /\ pc["p1"] = "done"
    /\ resp["p1"] = AlreadyCompleted
    /\ completed # {}
    /\ \A sid \in completed : Cardinality(HistoryOf(sid)) = 1

\* A schedule that is not done before the step is done after it.
BecomesDone(sid) ==
    /\ \E r \in schedules' : r.schedule_id = sid /\ r.status = "done"
    /\ ~ \E r \in schedules : r.schedule_id = sid /\ r.status = "done"

\* The step is the UPDATE of a /complete_schedule request for sid.
IsCompleteUpdate(sid) ==
    \E p \in Procs :
        pc[p] = "cp_update" /\ pc'[p] = "cp_insert" /\ req[p].schedule_id = <<sid>>

\* C4 (as claimed; SpecRoutes): every step that makes a schedule's status done is
\* the UPDATE of /complete_schedule.
C4_OnlyCompleteWritesDone ==
    [][\A sid \in 1..MaxSched : BecomesDone(sid) => IsCompleteUpdate(sid)]_vars

\* C4 (amended; SpecRoutes): every step that makes a schedule's status done is the
\* UPDATE of /complete_schedule, or the administrative POST /schedules or
\* PUT /schedules/<id> sent with status done; no other device route does it.
C4_DoneWriters ==
    [][\A sid \in 1..MaxSched :
        BecomesDone(sid)
        => \/ IsCompleteUpdate(sid)
           \/ /\ pc' = pc
              /\ \/ add_schedule("M1", <<0, 8, 0, 0>>, 20, "done")
                 \/ update_schedule(sid, "M1", <<0, 8, 0, 0>>, 20, "done")]_vars

\* C4 witness: a schedule is done that /complete_schedule completed, every device
\* route having answered in between.
C4_Witness ==
    /\ \E r \in schedules : r.status = "done" /\ r.schedule_id \in completed
    /\ pc["p1"] = "done"
    /\ resp["p1"].code = 200
    /\ resp["p1"].dispense = FALSE
    /\ \E r \in modules : r.weight # <<>>
    /\ files # {}

\* The step is a step of a /check_schedule request of thread p.
IsPoll(p) == (\E m \in FormModuleIds : check_schedule(p, m)) \/ check_schedule_due(p)

\* The schedule row with this id, as a set.
Pending(sid) == {r \in schedules : <<r.schedule_id>> = sid /\ r.status = "pending"}

\* C5 (SpecDevice): a /check_schedule request changes no table and no file; and
\* while a schedule that a poll has reported is still pending, every poll of its
\* module whose time of day has reached its feed time reports the same
\* schedule_id, amount and scheduled_time.
C5_PollReadOnlyAndRepeatable ==
    [][\A p \in Procs :
        /\ IsPoll(p) => Store' = Store /\ files' = files
        /\ \A q \in Procs \ {p} :
            (/\ pc[p] = "done"
             /\ resp[p].dispense
             /\ \E r \in Pending(resp[p].schedule_id) :
                    r.module_id = req[q].module_id
             /\ TextLe(resp[p].scheduled_time, nowStr[q])
             /\ check_schedule_due(q))
            => resp'[q] = resp[p]]_vars

\* C5 witness: two polls, the clock having moved on between them, hold the same
\* dispense:true answer for a schedule that is still pending.
C5_Witness ==
    /\ pc["p1"] = "done" /\ pc["p2"] = "done"
    /\ resp["p1"].dispense
    /\ resp["p2"] = resp["p1"]
    /\ Pending(resp["p1"].schedule_id) # {}
    /\ Minutes(resp["p1"].scheduled_time) < 540
    /\ now = 600
    /\ Cardinality(DueRows("M1", strftime(now))) = 2

\* The schedules of module m that are due at minute t of the day, by numbers.
DueSet(m, t) ==
    {r \in schedules :
        r.module_id = m /\ r.status = "pending" /\ Minutes(r.feed_time) <= t}

\* C6 (SpecDevice): the `now` of a poll reads as the clock's minute; the poll
\* answers 200, with dispense:false exactly when no schedule of the module is
\* pending with a feed time at or before now, and otherwise with the id, amount
\* and feed time of a schedule of that due set whose feed time is its minimum.
C6_PollReportsEarliestDue ==
    [][\A p \in Procs :
        /\ (\E m \in FormModuleIds : check_schedule(p, m)) /\ pc'[p] = "cs_due"
            => Minutes(nowStr'[p]) = now
        /\ check_schedule_due(p)
            => LET due == DueSet(req[p].module_id, Minutes(nowStr[p])) IN
               /\ resp'[p].code = 200
               /\ resp'[p].dispense <=> due # {}
               /\ due # {} =>
                    \E r \in due :
                        /\ resp'[p].schedule_id = <<r.schedule_id>>
                        /\ resp'[p].amount = <<r.amount>>
                        /\ resp'[p].scheduled_time = r.feed_time
                        /\ \A o \in due : Minutes(r.feed_time) <= Minutes(o.feed_time)
    ]_vars

\* C6 witness: a poll reported a schedule while another pending schedule of the
\* same module has a later feed time, which the clock has not reached.
C6_Witness ==
    \E p \in Procs :
        /\ pc[p] = "done"
        /\ resp[p].dispense
        /\ \E r \in Pending(resp[p].schedule_id), o \in schedules :
            /\ o.module_id = r.module_id
            /\ o.status = "pending"
            /\ Minutes(o.feed_time) > now
            /\ Minutes(r.feed_time) <= now

\* C7 (SpecSeq): once /complete_schedule has answered success for a schedule,
\* history holds exactly one row for it, no poll reports it, and a poll of a
\* module whose schedules are all completed answers dispense:false.
C7_CompletedNeverReported ==
    /\ [](\A sid \in completed : Cardinality(HistoryOf(sid)) = 1)
    /\ [][check_schedule_due("p1")
            => /\ \A sid \in completed : resp'["p1"].schedule_id # <<sid>>
               /\ (\A r \in schedules :
                      r.module_id = req["p1"].module_id => r.schedule_id \in completed)
                  => resp'["p1"] = NoDispense]_vars

\* C7 witness: every schedule of the plan is completed, one history row each, and
\* the poll that followed was answered dispense:false.
C7_Witness ==
    /\ completed = PlanIds
    /\ \A sid \in PlanIds : Cardinality(HistoryOf(sid)) = 1
    /\ pc["p1"] = "done"
    /\ resp["p1"] = NoDispense

\* C8 (as claimed; Spec): a /complete_schedule request that finds the schedule
\* with a status other than pending is answered 400 "already completed".
C8_OnlyPendingIsCompleted ==
    [][\A sid \in FormScheduleIds, m \in {"", "M1"} :
        (/\ sid # <<>>
         /\ \E r \in SelectSchedule(sid) : r.status # "pending"
         /\ complete_schedule("p1", sid, m))
        => resp'["p1"] = AlreadyCompleted]_vars

Rejections == {400, 403, 404}

\* C9 (SpecSeq): a device request answered 400, 403 or 404 has changed no table.
C9_RejectedWritesNothing ==
    \A p \in Procs : (pc[p] = "done" /\ resp[p].code \in Rejections) => ~wrote[p]

\* C9 witness: a completion was refused for the wrong module after another
\* schedule had been completed.
C9_Witness ==
    /\ pc["p1"] = "done"
    /\ resp["p1"] = Error(403, "Module ID mismatch")
    /\ ~wrote["p1"]
    /\ completed # {}

\* C10 (as claimed; Spec): a request that ends in a server error because a
\* statement failed has changed no table.
C10_FailureRollsBack ==
    \A p \in Procs : (pc[p] = "done" /\ resp[p].code = 500) => ~wrote[p]

\* C11 (SpecRegistry): a /check_schedule request with a module_id is answered 404
\* when modules holds no row of that id with status active, whatever schedules
\* exist for the id, and goes on to the schedule query exactly when there is such
\* a row; an answer dispense:true names a schedule of the module asked for.
C11_PollNeedsActiveModule ==
    [][/\ \A m \in FormModuleIds \ {""} :
            check_schedule("p1", m)
            => IF \E r \in modules : r.module_id = m /\ r.status = "active"
                THEN pc'["p1"] = "cs_due" /\ req'["p1"].module_id = m
                ELSE /\ pc'["p1"] = "done"
                     /\ resp'["p1"] = Error(404, "Invalid or inactive module_id")
       /\ (check_schedule_due("p1") /\ resp'["p1"].dispense)
            => \E r \in schedules :
                /\ <<r.schedule_id>> = resp'["p1"].schedule_id
                /\ r.module_id = req["p1"].module_id]_vars

\* C11 witness: a poll was answered 404 while every module has a pending schedule
\* that is due and none is registered active.
C11_Witness ==
    /\ pc["p1"] = "done"
    /\ resp["p1"] = Error(404, "Invalid or inactive module_id")
    /\ \A m \in ModuleIds :
        /\ DueRows(m, strftime(now)) # {}
        /\ SelectActiveModule(m) = {}
    /\ \E r \in modules : r.status = "inactive"

\* The weight text reads as a number of the range 0..10000.
InRange(w) ==
    /\ float(w).ok
    /\ ~float(w).nan
    /\ 0 <= float(w).value /\ float(w).value <= 10000

\* C12 (as claimed; SpecSeq): a /weight_update request for a registered module
\* goes on to the UPDATE exactly when its weight is a number of 0..10000, and is
\* otherwise answered 400 with modules unchanged; the UPDATE leaves the module
\* with the submitted number as its weight and status active, answered success.
C12_WeightAcceptedIffInRange ==
    [][/\ \A m \in FormModuleIds, w \in WeightTexts :
            (SelectModule(m) # {} /\ weight_update("p1", m, TRUE, w))
            => /\ modules' = modules
               /\ IF InRange(w) THEN pc'["p1"] = "wu_update"
                  ELSE pc'["p1"] = "done" /\ resp'["p1"].code = 400
       /\ weight_update_update("p1")
            => /\ resp'["p1"] = Success
               /\ \A r \in modules' :
                    r.module_id = req["p1"].module_id
                    => /\ r.weight = <<float(req["p1"].weight).value>>
                       /\ 0 <= r.weight[1] /\ r.weight[1] <= 10000
                       /\ r.status = "active"]_vars

\* The ids registered.
ModuleIdsOf(rows) == {r.module_id : r \in rows}
CamIdsOf(rows) == {r.cam_id : r \in rows}

\* C13 (SpecRegistry): a step of a device request leaves the module_ids of
\* modules and the rows of camera as they are, also when the module was deleted
\* between the request's SELECT and its UPDATE; a /weight_update request for a
\* module_id without a row is answered 403 and changes no table.
C13_DeviceTrafficRegistersNothing ==
    [][/\ PollAndTelemetry("p1")
            => /\ ModuleIdsOf(modules') = ModuleIdsOf(modules)
               /\ CamIdsOf(camera') = CamIdsOf(camera)
       /\ \A m \in {"M1", "M9"}, w \in {<<"5", "0">>, <<"a", "b", "c">>} :
            (/\ m \notin ModuleIdsOf(modules)
             /\ float(w).ok
             /\ weight_update("p1", m, TRUE, w))
            => /\ resp'["p1"].code = 403
               /\ pc'["p1"] = "done"
               /\ Store' = Store]_vars

\* C13 witness: the UPDATE of a /weight_update request ran after the module was
\* deleted, the request was answered, and no module and no camera is registered.
C13_Witness ==
    /\ pc["p1"] = "done"
    /\ resp["p1"] = Success
    /\ files = {}
    /\ ~wrote["p1"]
    /\ modules = {}
    /\ camera = {}

\* C14 (as claimed; SpecSnapshots): a request to delete a filename that contains
\* '..', '/' or '\' is answered 400 "Invalid filename" whether or not the path
\* exists, and removes nothing.
C14_TraversalRejectedFirst ==
    [][\A p \in Procs, filename \in SnapshotInputs :
        (HasTraversal(filename) /\ delete_snapshot(p, filename))
        => /\ resp'[p] = Error(400, "Invalid filename")
           /\ files' = files]_vars

\* C15 (SpecHistory): DELETE /schedules/<id> leaves history as it is; GET /history
\* answers one record per history row, with the row's history_id and created_at,
\* the columns of its schedule when that exists and nulls when it does not, in
\* an order of created_at that never increases.
C15_HistorySurvivesScheduleDelete ==
    [][/\ \A sid \in PlanIds : delete_schedule(sid) => history' = history
       /\ get_history("p1")
            => LET rows == resp'["p1"].rows IN
               /\ Len(rows) = Cardinality(history)
               /\ \A h \in history :
                    \E i \in 1..Len(rows) :
                        /\ rows[i].history_id = h.history_id
                        /\ rows[i].created_at = h.created_at
                        /\ IF \E r \in schedules : r.schedule_id = h.schedule_id
                            THEN /\ rows[i].schedule_id = <<h.schedule_id>>
                                 /\ \E r \in schedules :
                                    /\ r.schedule_id = h.schedule_id
                                    /\ rows[i].module_id = r.module_id
                                    /\ rows[i].feed_time = r.feed_time
                                    /\ rows[i].amount = <<r.amount>>
                                    /\ rows[i].status = r.status
                            ELSE /\ rows[i].schedule_id = <<>>
                                 /\ rows[i].module_id = ""
                                 /\ rows[i].feed_time = <<>>
                                 /\ rows[i].amount = <<>>
                                 /\ rows[i].status = "NULL"
               /\ \A i \in 1..Len(rows) - 1 :
                    rows[i].created_at >= rows[i + 1].created_at]_vars

\* C15 witness: the history read answered two records, the later one first: one
\* of a completed schedule that was deleted since, with null schedule fields, one
\* of a schedule that is there and done.
C15_Witness ==
    /\ pc["p1"] = "done"
    /\ Len(resp["p1"].rows) = 2
    /\ completed = PlanIds
    /\ Cardinality(schedules) = 1
    /\ resp["p1"].rows[1].created_at > resp["p1"].rows[2].created_at
    /\ \E i, j \in 1..2 :
        /\ resp["p1"].rows[i].schedule_id = <<>>
        /\ resp["p1"].rows[j].status = "done"
    /\ \A sid \in PlanIds : HistoryOf(sid) # {}

\* The schedule is there with status done.
Done(sid) == \E r \in schedules : r.schedule_id = sid /\ r.status = "done"

\* C16 (SpecFleet): no step of a device request, on any of the four device routes
\* and however two requests interleave, takes a schedule out of status done or
\* removes it; so a schedule becomes done at most once.
C16_DoneIsTerminal ==
    [][\A sid \in PlanIds :
        /\ Done(sid) => Done(sid)'
        /\ BecomesDone(sid) => IsCompleteUpdate(sid) /\ Pending(<<sid>>) # {}
        /\ \A r \in schedules : \E o \in schedules' : o.schedule_id = r.schedule_id
      ]_vars

\* C16 witness: two requests completed the same schedule, the UPDATE of the
\* second finding it done already, and it is done; weight and image were reported.
C16_Witness ==
    /\ \E sid \in PlanIds :
        /\ Done(sid)
        /\ Cardinality(HistoryOf(sid)) = 2
    /\ \E r \in modules : r.weight # <<>>
    /\ files # {}

\* C17 (as claimed; Spec): when /complete_schedule inserts the history row and
\* answers success, the schedule is in the store with status done.
C17_SuccessIsTruthful ==
    [][complete_schedule_insert("p1")
        => \E r \in schedules' :
            /\ <<r.schedule_id>> = req["p1"].schedule_id
            /\ r.status = "done"]_vars

====
